---- MODULE Spec2Model ----
(***************************************************************************)
(* A model of RTanksScraper (src/scraper.py; src/unnamed/part_000 is the   *)
(* aiohttp variant of the same class): the TTL cache, the fetcher and its  *)
(* transport client, the two cache-fronted entry points run as concurrent  *)
(* asyncio tasks, and the two extractors as operators over a parsed page.  *)
(*                                                                         *)
(* Text is a sequence of symbols.  A symbol is one character ("4", " ",    *)
(* "#") or one word that the code only ever tests as a whole ("Podbit").   *)
(* The Cyrillic literals of the source are written in Latin transcription: *)
(*   "profil igroka" = the marker phrase, "Unichtozhil"/"Ubijstv" = the    *)
(*   two kill labels, "Ubil" = the label of the spec's example,           *)
(*   "Podbit"/"Smertej" = the death labels, "U/P" and "K/D" = the ratio,   *)
(*   "zolotyh yashchikov" = gold boxes, "Premium", "Da"/"Net", "Gruppa".   *)
(* "^2" is the character SUPERSCRIPT TWO: str.isdigit() accepts it and     *)
(* int() rejects it.                                                       *)
(***************************************************************************)
EXTENDS Integers, Sequences, FiniteSets, Bags, TLC

VARIABLES
    now,        \* time.time(), in seconds
    cache,      \* self.cache: key -> [data, timestamp]
    written,    \* history: key -> the entry the last set_cache call on it was given
    session,    \* self.session: 0 (None) or the index of a client in clients
    clients,    \* every transport client constructed so far: "open" or "closed"
    calls,      \* the bag of coroutines suspended in `await session.get(url)`
    ret,        \* the last operation that returned, and what it returned
    pin,        \* the input of the extractor under check
    pout        \* the extractor's output

vars == <<now, cache, written, session, clients, calls, ret, pin, pout>>

----------------------------------------------------------------------------
(* Python values *)

NoneVal == [tag |-> "None"]
StrVal(s) == [tag |-> "str", val |-> s]
HtmlVal(page) == [tag |-> "html", val |-> page]     \* a str holding markup
DictVal(d) == [tag |-> "dict", val |-> d]
ListVal(l) == [tag |-> "list", val |-> l]

\* bool(v): None, "" and [] are false; player_data always has keys
Truthy(v) ==
    CASE v.tag = "None" -> FALSE
      [] v.tag = "str" -> v.val # <<>>
      [] v.tag = "html" -> v.val # [text |-> <<>>, tables |-> <<>>]
      [] v.tag = "list" -> v.val # <<>>
      [] v.tag = "dict" -> TRUE

----------------------------------------------------------------------------
(* The cache *)

cache_timeout == 300

EmptyDict == [k \in {} |-> NoneVal]

is_cache_valid_AgeInclusive(c, cache_key, t) ==
    IF cache_key \notin DOMAIN c
    THEN FALSE
    ELSE t - c[cache_key].timestamp <= cache_timeout

is_cache_valid(c, cache_key, t) ==
    IF cache_key \notin DOMAIN c
    THEN FALSE
    ELSE t - c[cache_key].timestamp < cache_timeout

get_from_cache_Disabled(c, cache_key, t) == NoneVal

get_from_cache(c, cache_key, t) ==
    IF is_cache_valid(c, cache_key, t) THEN c[cache_key].data ELSE NoneVal

set_cache_Torn(c, cache_key, data, t) ==
    [k \in DOMAIN c \cup {cache_key} |->
        IF k = cache_key
        THEN [data |-> data,
              timestamp |-> IF k \in DOMAIN c THEN c[k].timestamp ELSE t]
        ELSE c[k]]

set_cache(c, cache_key, data, t) ==
    [k \in DOMAIN c \cup {cache_key} |->
        IF k = cache_key THEN [data |-> data, timestamp |-> t] ELSE c[k]]

----------------------------------------------------------------------------
(* Text *)

DecimalDigits == {"0", "1", "2", "3", "4", "5", "6", "7", "8", "9"}
OtherDigits == {"^2"}                  \* str.isdigit() but not decimal
Whitespace == {" ", "\t"}
NonWord == Whitespace \cup {"#", ",", "/"}

DigitValue(ch) ==
    CASE ch = "0" -> 0 [] ch = "1" -> 1 [] ch = "2" -> 2 [] ch = "3" -> 3
      [] ch = "4" -> 4 [] ch = "5" -> 5 [] ch = "6" -> 6 [] ch = "7" -> 7
      [] ch = "8" -> 8 [] ch = "9" -> 9

SetMin(S) == CHOOSE x \in S : \A y \in S : x <= y
SetMax(S) == CHOOSE x \in S : \A y \in S : y <= x

\* str.isdigit()
isdigit(s) == s # <<>> /\ \A i \in 1..Len(s) : s[i] \in DecimalDigits \cup OtherDigits

\* int(s) raises ValueError: s is read after isdigit() or after the value clean-up,
\* so it holds no sign; "" and any symbol that is no decimal digit are rejected
IntRaises(s) == s = <<>> \/ \E i \in 1..Len(s) : s[i] \notin DecimalDigits

\* int(s), where it does not raise
int(s) ==
    LET f[i \in 0..Len(s)] == IF i = 0 THEN 0 ELSE f[i - 1] * 10 + DigitValue(s[i])
    IN  f[Len(s)]

\* str.strip()
strip(s) ==
    LET keep == {i \in 1..Len(s) : s[i] \notin Whitespace}
    IN  IF keep = {} THEN <<>> ELSE SubSeq(s, SetMin(keep), SetMax(keep))

\* re.sub('^[class]+', '', s)
StripLeading(s, class) ==
    LET keep == {i \in 1..Len(s) : s[i] \notin class}
    IN  IF keep = {} THEN <<>> ELSE SubSeq(s, SetMin(keep), Len(s))

\* pat in s
Contains(s, pat) ==
    \E i \in 0..(Len(s) - Len(pat)) : \A j \in 1..Len(pat) : s[i + j] = pat[j]

\* str.lower(), on the symbols whose case the model varies
LowerSymbol(ch) ==
    CASE ch \in {"Foo", "FOO"} -> "foo"
      [] ch \in {"Profil", "PROFIL"} -> "profil"
      [] ch = "Igroka" -> "igroka"
      [] OTHER -> ch

lower(s) == [i \in 1..Len(s) |-> LowerSymbol(s[i])]

\* sum(seqs, [])
Concat(seqs) ==
    LET f[i \in 0..Len(seqs)] == IF i = 0 THEN <<>> ELSE f[i - 1] \o seqs[i]
    IN  f[Len(seqs)]

----------------------------------------------------------------------------
(* A page as BeautifulSoup presents it: the text outside tables, and the   *)
(* tables, each a sequence of rows, each a sequence of td cells.  A cell   *)
(* holds an optional link (<<>> or <<its text>>), an optional image        *)
(* (<<>> or <<its alt>>) and its own text, in that order.                  *)

Cell(a, img, text) == [a |-> a, img |-> img, text |-> text]
TextCell(text) == Cell(<<>>, <<>>, text)

\* cell.get_text(strip=True): every string stripped, the empty ones dropped
get_text(cell) ==
    (IF cell.a = <<>> THEN <<>> ELSE strip(cell.a[1])) \o strip(cell.text)

\* find_all('table') then find_all('tr'): the rows of all tables in document order
AllRows(html) == Concat(html.tables)

\* the raw markup's text: what `x in html` searches
RawCell(cell) ==
    (IF cell.img = <<>> THEN <<>> ELSE cell.img[1] \o <<" ">>)
        \o (IF cell.a = <<>> THEN <<>> ELSE cell.a[1] \o <<" ">>)
        \o cell.text \o <<" ">>
RawRow(row) == Concat([i \in 1..Len(row) |-> RawCell(row[i])])
RawText(html) ==
    LET rows == AllRows(html)
    IN  html.text \o <<" ">> \o Concat([i \in 1..Len(rows) |-> RawRow(rows[i])])

EmptyPage == [text |-> <<>>, tables |-> <<>>]     \* the body ""

\* s.split(sep), the empty pieces dropped
Split(s, sep) ==
    LET f[i \in 0..Len(s)] ==
            IF i = 0 THEN << <<>> >>
            ELSE LET pieces == f[i - 1]
                 IN  IF s[i] = sep THEN Append(pieces, <<>>)
                     ELSE [pieces EXCEPT ![Len(pieces)] = Append(@, s[i])]
    IN  SelectSeq(f[Len(s)], LAMBDA piece : piece # <<>>)

\* the strings of a cell: the link's text, then the cell's own
CellNodes(cell) ==
    SelectSeq((IF cell.a = <<>> THEN <<>> ELSE <<cell.a[1]>>) \o <<cell.text>>,
              LAMBDA node : node # <<>>)
RowNodes(row) == Concat([i \in 1..Len(row) |-> CellNodes(row[i])])

\* the text nodes of the page in document order; "<br>" is an element boundary
\* in the text outside the tables
TextNodes(html) ==
    LET rows == AllRows(html)
    IN  Split(html.text, "<br>") \o Concat([i \in 1..Len(rows) |-> RowNodes(rows[i])])

----------------------------------------------------------------------------
(* parse_player_profile *)

Marker == <<"profil", " ", "igroka">>

\* the existence gate: the marker phrase or the nickname is in html.lower()
ProfileGate_CaseSensitive(html, nickname) ==
    Contains(RawText(html), Marker) \/ Contains(RawText(html), nickname)

ProfileGate(html, nickname) ==
    LET lowered == lower(RawText(html))
    IN  Contains(lowered, Marker) \/ Contains(lowered, lower(nickname))

\* player_data as constructed; an optional field is <<>> (None) or <<value>>
NewPlayerData(nickname) ==
    [nickname |-> nickname, rank |-> <<>>, experience |-> <<>>, kills |-> <<>>,
     deaths |-> <<>>, kd_ratio |-> <<>>, gold_boxes |-> <<>>, premium |-> <<>>,
     group |-> <<>>, activity |-> "Unknown", rankings |-> EmptyDict,
     equipment |-> [turrets |-> <<>>, hulls |-> <<>>, paints |-> <<>>,
                    modules |-> <<>>]]

\* re.compile(r'\d+\s*/\s*\d+|\d+\s+/\s+\d+').search(node): a "/" with a decimal
\* digit before it and one after it, nothing but whitespace in between
FractionAt(node, i) ==
    /\ node[i] = "/"
    /\ \E a \in 1..(i - 1) :
            node[a] \in DecimalDigits /\ \A k \in (a + 1)..(i - 1) : node[k] \in Whitespace
    /\ \E b \in (i + 1)..Len(node) :
            node[b] \in DecimalDigits /\ \A k \in (i + 1)..(b - 1) : node[k] \in Whitespace

FractionMatches(node) == \E i \in 1..Len(node) : FractionAt(node, i)

\* the symbols that hold the character "/"
HasSlash(ch) == ch \in {"/", "U/P", "K/D", "N/A"}

\* exp_text.split('/')[0].strip().replace(' ', ''): what stands before the first
\* "/" of the node, a word that holds the "/" staying in as a non-digit
current_exp(node) ==
    LET i == SetMin({j \in 1..Len(node) : HasSlash(node[j])})
        head == SubSeq(node, 1, i - 1) \o (IF node[i] = "/" THEN <<>> ELSE <<node[i]>>)
    IN  SelectSeq(strip(head), LAMBDA ch : ch # " ")

\* the nodes at which the loop over exp_elements reaches int(current_exp)
ExperienceNodes(html) ==
    LET nodes == TextNodes(html)
    IN  SelectSeq(nodes, LAMBDA node : FractionMatches(node) /\ isdigit(current_exp(node)))

\* int(current_exp) raises at the first of them
ExperienceRaises(html) ==
    LET reached == ExperienceNodes(html)
    IN  reached # <<>> /\ IntRaises(current_exp(reached[1]))

\* player_data['experience'] after the loop, which breaks at the first of them
Experience(html) ==
    LET reached == ExperienceNodes(html)
    IN  IF reached = <<>> THEN <<>> ELSE <<int(current_exp(reached[1]))>>

IsKillsKey(key) == Contains(key, <<"Unichtozhil">>) \/ Contains(key, <<"Ubijstv">>)
IsDeathsKey(key) == Contains(key, <<"Podbit">>) \/ Contains(key, <<"Smertej">>)
IsRatioKey(key) == Contains(key, <<"U/P">>) \/ Contains(key, <<"K/D">>)
IsGoldKey(key) == Contains(key, <<"zolotyh", " ", "yashchikov">>)
IsPremiumKey(key) == Contains(key, <<"Premium">>)
IsGroupKey(key) == Contains(key, <<"Gruppa">>)

\* the field the if/elif chain picks for a label: the first branch that matches
StatField_NoKills(key) ==
    CASE IsDeathsKey(key) -> "deaths"
      [] IsRatioKey(key) -> "kd_ratio"
      [] IsGoldKey(key) -> "gold_boxes"
      [] IsPremiumKey(key) -> "premium"
      [] IsGroupKey(key) -> "group"
      [] OTHER -> "none"

StatField(key) ==
    IF IsKillsKey(key) THEN "kills"
    ELSE IF IsDeathsKey(key) THEN "deaths"
    ELSE IF IsRatioKey(key) THEN "kd_ratio"
    ELSE IF IsGoldKey(key) THEN "gold_boxes"
    ELSE IF IsPremiumKey(key) THEN "premium"
    ELSE IF IsGroupKey(key) THEN "group"
    ELSE "none"

\* float(value) succeeds; the modelled alphabet has no ".", sign or exponent
FloatParses(value) == ~IntRaises(value)

\* the body of the loop over the rows of all tables
ProfileRow(pd, row) ==
    IF Len(row) < 2 THEN pd
    ELSE
        LET key == get_text(row[1])
            value == get_text(row[2])
            field == StatField(key)
        IN  CASE field = "kills" ->
                    IF isdigit(value) THEN [pd EXCEPT !.kills = <<int(value)>>] ELSE pd
              [] field = "deaths" ->
                    IF isdigit(value) THEN [pd EXCEPT !.deaths = <<int(value)>>] ELSE pd
              [] field = "kd_ratio" ->
                    IF FloatParses(value) THEN [pd EXCEPT !.kd_ratio = <<int(value)>>]
                    ELSE pd
              [] field = "gold_boxes" ->
                    IF isdigit(value) THEN [pd EXCEPT !.gold_boxes = <<int(value)>>]
                    ELSE pd
              [] field = "premium" ->
                    [pd EXCEPT !.premium = <<Contains(value, <<"Da">>)>>]
              [] field = "group" -> [pd EXCEPT !.group = <<value>>]
              [] OTHER -> pd

\* int(value) raises in the loop body: the guard is isdigit(), which also
\* accepts digits int() rejects
ProfileRowRaises(row) ==
    /\ Len(row) >= 2
    /\ StatField(get_text(row[1])) \in {"kills", "deaths", "gold_boxes"}
    /\ isdigit(get_text(row[2]))
    /\ IntRaises(get_text(row[2]))

ProfileRaises(html) ==
    \/ ExperienceRaises(html)
    \/ \E i \in 1..Len(AllRows(html)) : ProfileRowRaises(AllRows(html)[i])

ProfileStats(pd, rows) ==
    LET f[i \in 0..Len(rows)] == IF i = 0 THEN pd ELSE ProfileRow(f[i - 1], rows[i])
    IN  f[Len(rows)]

\* the rankings of the first table: rows of at least 3 cells, none of the three empty
RankingRow(rankings, row) ==
    IF Len(row) < 3 THEN rankings
    ELSE
        LET category == get_text(row[1])
            rank == get_text(row[2])
            value == get_text(row[3])
        IN  IF category # <<>> /\ rank # <<>> /\ value # <<>>
            THEN [k \in DOMAIN rankings \cup {category} |->
                    IF k = category THEN [rank |-> rank, value |-> value]
                    ELSE rankings[k]]
            ELSE rankings

Rankings(html) ==
    IF html.tables = <<>> THEN EmptyDict
    ELSE
        LET rows == html.tables[1]
            f[i \in 0..Len(rows)] ==
                IF i = 0 THEN EmptyDict ELSE RankingRow(f[i - 1], rows[i])
        IN  f[Len(rows)]

\* The modelled pages hold no online indicator, no rank div and no equipment
\* div: activity, rank and equipment keep their defaults.
parse_player_profile(html, nickname) ==
    IF ~ProfileGate(html, nickname) THEN NoneVal
    ELSE IF ProfileRaises(html) THEN NoneVal          \* except Exception: return None
    ELSE DictVal([ProfileStats(NewPlayerData(nickname), AllRows(html))
                    EXCEPT !.experience = Experience(html),
                           !.rankings = Rankings(html)])

----------------------------------------------------------------------------
(* parse_leaderboard *)

TopN == 10

\* the player name of the name cell: link text, else image alt, else cell text,
\* then the two prefix clean-ups
PlayerName(cell) ==
    LET fromLink == IF cell.a = <<>> THEN <<>> ELSE strip(cell.a[1])
        fromImg == IF fromLink # <<>> THEN fromLink
                   ELSE IF cell.img = <<>> THEN <<>> ELSE strip(cell.img[1])
        raw == IF fromImg # <<>> THEN fromImg ELSE get_text(cell)
    IN  IF raw = <<>> THEN raw
        ELSE strip(StripLeading(strip(StripLeading(raw, DecimalDigits \cup Whitespace)),
                                NonWord))

\* re.sub(r'[^\d\s]', '', value_text).strip().replace(' ', '')
ValueClean(value_text) ==
    LET kept == SelectSeq(value_text, LAMBDA ch : ch \in DecimalDigits \cup Whitespace)
    IN  SelectSeq(strip(kept), LAMBDA ch : ch # " ")

\* int(value_clean) if value_clean else 0, with ValueError giving 0
ParseValue(value_text) ==
    IF IntRaises(ValueClean(value_text)) THEN 0 ELSE int(ValueClean(value_text))

\* the test that guards players.append
RowAccepted(row) ==
    /\ Len(row) >= 3
    /\ isdigit(get_text(row[1]))
    /\ PlayerName(row[2]) # <<>>
    /\ get_text(row[3]) # <<>>

\* int(rank_text) raises while the entry is built, outside the inner try
LeaderboardRowRaises(row) == RowAccepted(row) /\ IntRaises(get_text(row[1]))

LeaderboardRaises(html) ==
    \E i \in 1..Len(AllRows(html)) : LeaderboardRowRaises(AllRows(html)[i])

LeaderboardEntry(row) ==
    [rank |-> int(get_text(row[1])), name |-> PlayerName(row[2]),
     value |-> ParseValue(get_text(row[3])), formatted_value |-> get_text(row[3])]

\* players.sort(key=rank): stable, so an entry goes after the entries of equal rank
InsertByRank(sorted, e) ==
    LET before == {i \in 1..Len(sorted) : sorted[i].rank <= e.rank}
        n == Cardinality(before)
    IN  SubSeq(sorted, 1, n) \o <<e>> \o SubSeq(sorted, n + 1, Len(sorted))

SortByRank(players) ==
    LET f[i \in 0..Len(players)] ==
            IF i = 0 THEN <<>> ELSE InsertByRank(f[i - 1], players[i])
    IN  f[Len(players)]

\* players[:10]
Truncate(players) == SubSeq(players, 1, IF Len(players) < TopN THEN Len(players) ELSE TopN)

parse_leaderboard(html) ==
    IF LeaderboardRaises(html) THEN ListVal(<<>>)     \* except Exception: return []
    ELSE
        LET rows == SelectSeq(AllRows(html), RowAccepted)
            players == [i \in 1..Len(rows) |-> LeaderboardEntry(rows[i])]
        IN  ListVal(Truncate(SortByRank(players)))

----------------------------------------------------------------------------
(* The fetcher and the two entry points *)

MaxTime == 450          \* the clock stops advancing here
TickStep == 150         \* seconds per clock step
MaxClients == 2         \* transport clients constructed in one run
MaxInFlight == 2        \* coroutines suspended at one time

Foo == <<"Foo">>
Nicknames == {Foo}
Categories == {<<"experience">>}
Urls == {<<"url">>}

PlayerKey(nickname) == <<"player_", nickname>>
LeaderboardKey(category) == <<"leaderboard_", category>>
Keys == {PlayerKey(n) : n \in Nicknames} \cup {LeaderboardKey(c) : c \in Categories}

\* the pages the site serves in the concurrent model
ProfilePage ==
    [text |-> <<"Profil", " ", "igroka">>,
     tables |-> << << <<TextCell(<<"Unichtozhil">>), TextCell(<<"4", "2">>)>> >> >>]
RatingsPage ==
    [text |-> <<>>,
     tables |-> << << <<TextCell(<<"1">>), Cell(<<<<"Alice">>>>, <<>>, <<>>),
                       TextCell(<<"1", " ", "0", "0", "0">>)>> >> >>]
Bodies == {ProfilePage, RatingsPage, EmptyPage}

OkStatus == 200
Statuses == {OkStatus, 404, 500}

\* what `await session.get(url)` can come to
Outcomes ==
    {[kind |-> "response", status |-> OkStatus, body |-> b] : b \in Bodies}
        \cup {[kind |-> "response", status |-> st, body |-> ProfilePage] :
                st \in Statuses \ {OkStatus}}
        \cup {[kind |-> "timeout", status |-> 0, body |-> EmptyPage],
              [kind |-> "error", status |-> 0, body |-> EmptyPage]}

\* fetch_page from the request's outcome on: what it returns, and whether an
\* exception leaves it
fetch_page_NoCatchAll(outcome) ==
    CASE outcome.kind = "response" /\ outcome.status = OkStatus ->
            [raised |-> FALSE, value |-> HtmlVal(outcome.body)]
      [] outcome.kind = "response" /\ outcome.status # OkStatus ->
            [raised |-> FALSE, value |-> NoneVal]
      [] outcome.kind = "timeout" -> [raised |-> FALSE, value |-> NoneVal]
      [] OTHER -> [raised |-> TRUE, value |-> NoneVal]

fetch_page(outcome) ==
    CASE outcome.kind = "response" /\ outcome.status = OkStatus ->
            [raised |-> FALSE, value |-> HtmlVal(outcome.body)]
      [] outcome.kind = "response" /\ outcome.status # OkStatus ->
            [raised |-> FALSE, value |-> NoneVal]
      [] outcome.kind = "timeout" -> [raised |-> FALSE, value |-> NoneVal]
      [] OTHER -> [raised |-> FALSE, value |-> NoneVal]

\* get_session: the session to use and the clients after it
get_session_AlwaysNew(s, cl) == [session |-> Len(cl) + 1, clients |-> Append(cl, "open")]

get_session(s, cl) ==
    IF s = 0 \/ cl[s] = "closed"
    THEN [session |-> Len(cl) + 1, clients |-> Append(cl, "open")]
    ELSE [session |-> s, clients |-> cl]

\* close_session
close_session(s, cl) ==
    IF s # 0 /\ cl[s] # "closed" THEN [cl EXCEPT ![s] = "closed"] ELSE cl

Outcome(c, value, raised, sets) ==
    [cache |-> c, value |-> value, raised |-> raised, sets |-> sets]

\* get_player_stats from `html = await self.fetch_page(url)` on; sets lists the
\* set_cache calls it makes
get_player_stats_resume_StoreAlways(c, nickname, fetched, t) ==
    IF fetched.raised THEN Outcome(c, NoneVal, TRUE, <<>>)
    ELSE
        LET data == IF Truthy(fetched.value)
                    THEN parse_player_profile(fetched.value.val, nickname)
                    ELSE NoneVal
        IN  Outcome(set_cache(c, PlayerKey(nickname), data, t), data, FALSE,
                    <<[key |-> PlayerKey(nickname), data |-> data]>>)

get_player_stats_resume_NoStore(c, nickname, fetched, t) ==
    IF fetched.raised THEN Outcome(c, NoneVal, TRUE, <<>>)
    ELSE IF ~Truthy(fetched.value) THEN Outcome(c, NoneVal, FALSE, <<>>)
    ELSE Outcome(c, parse_player_profile(fetched.value.val, nickname), FALSE, <<>>)

get_player_stats_resume(c, nickname, fetched, t) ==
    IF fetched.raised THEN Outcome(c, NoneVal, TRUE, <<>>)
    ELSE IF ~Truthy(fetched.value) THEN Outcome(c, NoneVal, FALSE, <<>>)
    ELSE
        LET player_data == parse_player_profile(fetched.value.val, nickname)
        IN  IF Truthy(player_data)
            THEN Outcome(set_cache(c, PlayerKey(nickname), player_data, t),
                         player_data, FALSE,
                         <<[key |-> PlayerKey(nickname), data |-> player_data]>>)
            ELSE Outcome(c, player_data, FALSE, <<>>)

get_leaderboard_resume_StoreEmpty(c, category, fetched, t) ==
    IF fetched.raised THEN Outcome(c, NoneVal, TRUE, <<>>)
    ELSE IF ~Truthy(fetched.value) THEN Outcome(c, NoneVal, FALSE, <<>>)
    ELSE
        LET leaderboard_data == parse_leaderboard(fetched.value.val)
        IN  Outcome(set_cache(c, LeaderboardKey(category), leaderboard_data, t),
                    leaderboard_data, FALSE,
                    <<[key |-> LeaderboardKey(category), data |-> leaderboard_data]>>)

\* get_leaderboard from `html = await self.fetch_page(url)` on
get_leaderboard_resume(c, category, fetched, t) ==
    IF fetched.raised THEN Outcome(c, NoneVal, TRUE, <<>>)
    ELSE IF ~Truthy(fetched.value) THEN Outcome(c, NoneVal, FALSE, <<>>)
    ELSE
        LET leaderboard_data == parse_leaderboard(fetched.value.val)
        IN  IF Truthy(leaderboard_data)
            THEN Outcome(set_cache(c, LeaderboardKey(category), leaderboard_data, t),
                         leaderboard_data, FALSE,
                         <<[key |-> LeaderboardKey(category), data |-> leaderboard_data]>>)
            ELSE Outcome(c, leaderboard_data, FALSE, <<>>)

----------------------------------------------------------------------------
(* The state machine *)

NoOutcome == [kind |-> "none", status |-> 0, body |-> EmptyPage]
ClientFault == [kind |-> "error", status |-> 0, body |-> EmptyPage]

Returned(op, arg, key, outcome, value, raised, requests, hit) ==
    [op |-> op, arg |-> arg, key |-> key, outcome |-> outcome,
     value |-> value, raised |-> raised, requests |-> requests, hit |-> hit]

NothingReturned ==
    Returned("none", <<>>, <<>>, NoOutcome, NoneVal, FALSE, 0, FALSE)

NoInput == [kind |-> "none"]
NotRun == [done |-> FALSE, value |-> NoneVal]

\* RTanksScraper.__init__
Constructed ==
    /\ now = 0
    /\ cache = EmptyDict
    /\ written = EmptyDict
    /\ session = 0
    /\ clients = <<>>
    /\ calls = EmptyBag
    /\ ret = NothingReturned

Init ==
    /\ Constructed
    /\ pin = NoInput
    /\ pout = NotRun

CachedOps == {"get_player_stats", "get_leaderboard"}

OpArgs ==
    {<<"get_player_stats", n>> : n \in Nicknames}
        \cup {<<"get_leaderboard", c>> : c \in Categories}
        \cup {<<"fetch_page", u>> : u \in Urls}

CallKey(op, arg) ==
    CASE op = "get_player_stats" -> PlayerKey(arg)
      [] op = "get_leaderboard" -> LeaderboardKey(arg)
      [] OTHER -> <<>>

\* the entry point reads the cache and finds a value that passes `if cached_data`
CacheServes(op, arg) ==
    op \in CachedOps /\ Truthy(get_from_cache(cache, CallKey(op, arg), now))

\* the history after the set_cache calls `sets`, made at time t
Record(w, sets, t) ==
    IF sets = <<>> THEN w
    ELSE [k \in DOMAIN w \cup {sets[1].key} |->
            IF k = sets[1].key THEN [data |-> sets[1].data, timestamp |-> t]
            ELSE w[k]]

\* time passes
Tick ==
    /\ now + TickStep <= MaxTime
    /\ now' = now + TickStep
    /\ UNCHANGED <<cache, written, session, clients, calls, ret, pin, pout>>

\* an entry point is called and is served from the cache, with no await
CallHit(op, arg) ==
    /\ CacheServes(op, arg)
    /\ ret' = Returned(op, arg, CallKey(op, arg), NoOutcome,
                       get_from_cache(cache, CallKey(op, arg), now), FALSE, 0, TRUE)
    /\ UNCHANGED <<now, cache, written, session, clients, calls, pin, pout>>

\* an entry point (or fetch_page itself) is called, misses the cache, takes the
\* session and suspends in `await session.get(url)`
CallFetch(op, arg) ==
    /\ BagCardinality(calls) < MaxInFlight
    /\ ~CacheServes(op, arg)
    /\ LET gs == get_session(session, clients)
       IN  /\ Len(gs.clients) <= MaxClients
           /\ session' = gs.session
           /\ clients' = gs.clients
           /\ calls' = calls (+) SetToBag({[op |-> op, arg |-> arg,
                                            client |-> gs.session]})
    /\ UNCHANGED <<now, cache, written, ret, pin, pout>>

\* what the caller of fetch_page does with what fetch_page hands back
Resume(op, arg, fetched) ==
    CASE op = "get_player_stats" -> get_player_stats_resume(cache, arg, fetched, now)
      [] op = "get_leaderboard" -> get_leaderboard_resume(cache, arg, fetched, now)
      [] OTHER -> Outcome(cache, fetched.value, fetched.raised, <<>>)

\* as CallFetch, but constructing the client raises inside fetch_page's try:
\* no request is sent and the call returns at once
CallClientFault(op, arg) ==
    /\ ~CacheServes(op, arg)
    /\ (IF session = 0 THEN TRUE ELSE clients[session] = "closed")
    /\ LET res == Resume(op, arg, fetch_page(ClientFault))
       IN  /\ cache' = res.cache
           /\ written' = Record(written, res.sets, now)
           /\ ret' = Returned(op, arg, CallKey(op, arg), ClientFault,
                              res.value, res.raised, 0, FALSE)
    /\ UNCHANGED <<now, session, clients, calls, pin, pout>>

\* the request of a suspended coroutine comes to an outcome; the coroutine runs
\* to its return
Respond(call, outcome) ==
    /\ BagIn(call, calls)
    /\ LET res == Resume(call.op, call.arg, fetch_page(outcome))
       IN  /\ cache' = res.cache
           /\ written' = Record(written, res.sets, now)
           /\ ret' = Returned(call.op, call.arg, CallKey(call.op, call.arg), outcome,
                              res.value, res.raised, 1, FALSE)
    /\ calls' = calls (-) SetToBag({call})
    /\ UNCHANGED <<now, session, clients, pin, pout>>

\* close_session is called
CloseSession ==
    /\ clients' = close_session(session, clients)
    /\ ret' = Returned("close_session", <<>>, <<>>, NoOutcome, NoneVal, FALSE, 0, FALSE)
    /\ UNCHANGED <<now, cache, written, session, calls, pin, pout>>

Next ==
    \/ Tick
    \/ \E oa \in OpArgs : CallHit(oa[1], oa[2])
    \/ \E oa \in OpArgs : CallFetch(oa[1], oa[2])
    \/ \E oa \in OpArgs : CallClientFault(oa[1], oa[2])
    \/ \E call \in BagToSet(calls), outcome \in Outcomes : Respond(call, outcome)
    \/ CloseSession

Spec == Init /\ [][Next]_vars

----------------------------------------------------------------------------
(* The cache on its own: set_cache and get_from_cache called directly *)

CacheValues == {StrVal(<<"v1">>), StrVal(<<"v2">>)}

CacheSet(k, v) ==
    /\ cache' = set_cache(cache, k, v, now)
    /\ written' = Record(written, <<[key |-> k, data |-> v]>>, now)
    /\ ret' = Returned("set_cache", <<>>, k, NoOutcome, NoneVal, FALSE, 0, FALSE)
    /\ UNCHANGED <<now, session, clients, calls, pin, pout>>

CacheGet(k) ==
    /\ ret' = Returned("get_from_cache", <<>>, k, NoOutcome,
                       get_from_cache(cache, k, now), FALSE, 0,
                       is_cache_valid(cache, k, now))
    /\ UNCHANGED <<now, cache, written, session, clients, calls, pin, pout>>

NextCache ==
    \/ Tick
    \/ \E k \in Keys, v \in CacheValues : CacheSet(k, v)
    \/ \E k \in Keys : CacheGet(k)

SpecCache == Init /\ [][NextCache]_vars

----------------------------------------------------------------------------
(* parse_player_profile on its own *)

MaxProfileRows == 3     \* table rows of a profile page under the marker phrase
MaxGateRows == 2        \* table rows of a profile page under any other text
MaxTextNodes == 2       \* text nodes after the marker phrase of a profile page

Row2(label, value) == <<TextCell(label), TextCell(value)>>

ProfileRowPool ==
    {Row2(<<"Unichtozhil">>, <<"4", "2">>),
     Row2(<<"Ubil">>, <<"4", "2">>),
     Row2(<<"Podbit">>, <<"7">>),
     Row2(<<"Premium">>, <<"Da">>),
     Row2(<<"Premium">>, <<"Net">>),
     Row2(<<"Ubijstv">>, <<"x">>),
     Row2(<<"Smertej">>, <<"^2">>),
     Row2(<<"Unichtozhil", " ", "Podbit">>, <<"7">>),
     Row2(<<"Gruppa">>, <<"foo">>),
     Row2(<<"zolotyh", " ", "yashchikov">>, <<"7">>),
     <<TextCell(<<"Podbit">>)>>,
     <<TextCell(<<"K/D">>), TextCell(<<"7">>), TextCell(<<"4", "2">>)>>}

ProfileTexts ==
    {<<>>, <<"profil", " ", "igroka">>, <<"Profil", " ", "Igroka">>, <<"FOO">>}

ProfileRowSeqs(maxRows) == UNION {[1..n -> ProfileRowPool] : n \in 0..maxRows}

\* the rows in one table, or the first row in a table of its own
Layouts(rows) ==
    {<< rows >>} \cup
        (IF Len(rows) >= 2 THEN {<< <<rows[1]>>, SubSeq(rows, 2, Len(rows)) >>} ELSE {})

ProfilePages(texts, maxRows) ==
    {[text |-> t, tables |-> tb] :
        t \in texts, tb \in UNION {Layouts(rows) : rows \in ProfileRowSeqs(maxRows)}}

ExperienceNodePool ==
    {<<"1", " ", "5", "0", "0", " ", "/", " ", "2", " ", "0", "0", "0">>,
     <<"Opyt", " ", "1", " ", "5", "0", "0", " ", "/", " ", "2", " ", "0", "0", "0">>,
     <<"3", "/", "4">>,
     <<"^2", "1", "/", "5">>,
     <<"7", " ", "/", " ", "x">>,
     <<"1", "\t", "5", "/", "9">>}

\* the marker phrase, then up to maxNodes text nodes, an element boundary before each
ExperienceTexts(maxNodes) ==
    {<<"profil", " ", "igroka">>
        \o Concat([i \in 1..Len(nodes) |-> <<"<br>">> \o nodes[i]]) :
        nodes \in UNION {[1..n -> ExperienceNodePool] : n \in 1..maxNodes}}

ExperienceTables ==
    {<<>>, << <<Row2(<<"Podbit">>, <<"7">>)>> >>,
     << <<Row2(<<"Opyt">>, <<"3", "/", "4">>)>> >>}

\* every text and nickname over the short pages, the marker phrase and the
\* nickname "Foo" over the long ones and over the pages with text nodes
ProfileInputs(gateRows, maxRows, maxNodes) ==
    {[kind |-> "profile", html |-> h, nickname |-> n] :
        h \in ProfilePages(ProfileTexts, gateRows), n \in {Foo, <<>>}}
    \cup {[kind |-> "profile", html |-> h, nickname |-> Foo] :
        h \in ProfilePages({<<"profil", " ", "igroka">>}, maxRows)}
    \cup {[kind |-> "profile", html |-> [text |-> t, tables |-> tb], nickname |-> Foo] :
        t \in ExperienceTexts(maxNodes), tb \in ExperienceTables}

InitProfile ==
    /\ Constructed
    /\ pin \in ProfileInputs(MaxGateRows, MaxProfileRows, MaxTextNodes)
    /\ pout = NotRun

ParseProfile ==
    /\ ~pout.done
    /\ pout' = [done |-> TRUE, value |-> parse_player_profile(pin.html, pin.nickname)]
    /\ UNCHANGED <<now, cache, written, session, clients, calls, ret, pin>>

SpecProfile == InitProfile /\ [][ParseProfile]_vars

----------------------------------------------------------------------------
(* parse_leaderboard on its own *)

MaxPad == 10            \* rows of the long table of a ratings page
MaxExtra == 2           \* rows of its short table

Digit(n) == CHOOSE ch \in DecimalDigits : DigitValue(ch) = n
Decimal(n) == IF n < 10 THEN <<Digit(n)>> ELSE <<Digit(n \div 10), Digit(n % 10)>>

Row3(rank, nameCell, value) == <<TextCell(rank), nameCell, TextCell(value)>>
Link(text) == Cell(<<text>>, <<>>, <<>>)

\* a table of n accepted rows, ranks n down to 1
PadTable(n) ==
    [i \in 1..n |-> Row3(Decimal(n + 1 - i), Link(<<"p", Digit((n + 1 - i) % 10)>>), <<"5">>)]

LeaderboardRowPool ==
    {Row3(<<"1">>, Link(<<"Alice">>), <<"1", " ", "0", "0", "0">>),
     Row3(<<"2">>, Link(<<"Bob">>), <<"5", "0", "0">>),
     Row3(<<"N/A">>, Link(<<"Bob">>), <<"5">>),
     Row3(<<"^2">>, Link(<<"Bob">>), <<"5">>),
     Row3(<<"1">>, Cell(<<>>, <<<<" ", "Carol">>>>, <<>>), <<"7", "#">>),
     Row3(<<"3">>, TextCell(<<"1", "2", " ", "#", "Dave">>), <<"x">>),
     Row3(<<"4">>, Cell(<<<<>>>>, <<<<>>>>, <<"#", "#">>), <<"5">>),
     Row3(<<"5">>, Link(<<"Eve">>), <<"1", "\t", "0", "0", "0">>),
     Row3(<<"1", "2">>, Link(<<"Zed">>), <<"9">>),
     Row3(<<"0">>, Link(<<"Nil">>), <<"9">>),
     <<TextCell(<<"1">>), Link(<<"Short">>)>>}

LeaderboardRowSeqs(maxRows) == UNION {[1..n -> LeaderboardRowPool] : n \in 0..maxRows}

\* the long table before or after the short one
LeaderboardPages(maxPad, maxExtra) ==
    {[text |-> <<>>, tables |-> tb] :
        tb \in UNION {{<<PadTable(n), extra>>, <<extra, PadTable(n)>>} :
                        n \in 0..maxPad, extra \in LeaderboardRowSeqs(maxExtra)}}

InitLeaderboard ==
    /\ Constructed
    /\ pin \in {[kind |-> "leaderboard", html |-> h, nickname |-> <<>>] :
                    h \in LeaderboardPages(MaxPad, MaxExtra)}
    /\ pout = NotRun

ParseLeaderboard ==
    /\ ~pout.done
    /\ pout' = [done |-> TRUE, value |-> parse_leaderboard(pin.html)]
    /\ UNCHANGED <<now, cache, written, session, clients, calls, ret, pin>>

SpecLeaderboard == InitLeaderboard /\ [][ParseLeaderboard]_vars

----------------------------------------------------------------------------
(* Claims *)

\* the entry of key k is younger than the TTL
Young(c, k, t) == k \in DOMAIN c /\ t - c[k].timestamp < cache_timeout

\* a step in which a coroutine suspends in the fetch / resumes from it
Suspends == BagCardinality(calls') > BagCardinality(calls)
Resumes == BagCardinality(calls') < BagCardinality(calls)
Suspending == CHOOSE c \in BagToSet(calls') : CopiesIn(c, calls') > CopiesIn(c, calls)

FetchFailed(outcome) ==
    outcome.kind \in {"timeout", "error"}
        \/ (outcome.kind = "response" /\ outcome.status # OkStatus)

\* the extractor an entry point applies to the markup it fetched
Extract(op, arg, body) ==
    IF op = "get_player_stats" THEN parse_player_profile(body, arg)
    ELSE parse_leaderboard(body)

(* C1: a get after a set of the same key returns the value set while less than
   300 seconds have passed since that set and absent from 300 seconds on, the
   entry staying in the store; a get of a key never set returns absent. *)
C1_GetAfterSet ==
    \A k \in Keys :
        LET got == get_from_cache(cache, k, now)
        IN  IF k \notin DOMAIN written THEN got = NoneVal /\ k \notin DOMAIN cache
            ELSE /\ k \in DOMAIN cache
                 /\ now - written[k].timestamp < 300 => got = written[k].data
                 /\ now - written[k].timestamp >= 300 => got = NoneVal

\* a get at exactly 300 seconds returned absent with the entry still stored
C1_Witness ==
    /\ ret.op = "get_from_cache"
    /\ ret.value = NoneVal
    /\ ret.key \in DOMAIN cache
    /\ now - cache[ret.key].timestamp = 300

(* C2: a get_player_stats or get_leaderboard call whose key holds an entry
   younger than 300 seconds returns the stored value and issues no request; a
   request is issued only when the key is missing or its entry has expired. *)
C2_CacheGatesFetches ==
    [][/\ (Suspends /\ Suspending.op \in CachedOps)
            => ~Young(cache, CallKey(Suspending.op, Suspending.arg), now)
       /\ (ret' # ret /\ ret'.op \in CachedOps /\ ret'.requests = 0
                /\ Young(cache, ret'.key, now))
            => (ret'.hit /\ ret'.value = cache[ret'.key].data /\ calls' = calls)
      ]_vars

\* a call was served from an entry 150 seconds old
C2_Witness ==
    /\ ret.hit
    /\ ret.op \in CachedOps
    /\ ret.key \in DOMAIN cache
    /\ now - cache[ret.key].timestamp = TickStep
    /\ ret.value = cache[ret.key].data

\* the step in which a cached entry point resumes with markup from its fetch
ResumesWithMarkup ==
    /\ Resumes
    /\ ret'.op \in CachedOps
    /\ ret'.outcome.kind = "response"
    /\ ret'.outcome.status = OkStatus
    /\ ret'.outcome.body # EmptyPage

StoredAndReturned(data) ==
    /\ ret'.value = data
    /\ ret'.key \in DOMAIN cache'
    /\ cache'[ret'.key] = [data |-> data, timestamp |-> now]

(* C3 as stated: whenever a call misses and its fetch returns markup, the
   extractor's result is stored under the call's key, stamped with the current
   time, and returned. *)
C3_Original ==
    [][ResumesWithMarkup
        => StoredAndReturned(Extract(ret'.op, ret'.arg, ret'.outcome.body))]_vars

(* C3 as amended: the extractor's result is always returned; it is stored under
   the call's key with the current time, and so serves an identical call for the
   next 300 seconds, when it is a profile or a non-empty list; an absent profile
   or an empty list is returned with the cache left as it was. *)
C3_StoredWhenNonEmpty ==
    [][ResumesWithMarkup
        => \A data \in {Extract(ret'.op, ret'.arg, ret'.outcome.body)} :
               IF Truthy(data)
               THEN StoredAndReturned(data) /\ Young(cache', ret'.key, now')
               ELSE ret'.value = data /\ cache' = cache]_vars

\* a profile was extracted, stored under its key at the current time and returned
C3_Witness ==
    /\ ret.op = "get_player_stats"
    /\ ret.requests = 1
    /\ ret.outcome.kind = "response"
    /\ ret.outcome.status = OkStatus
    /\ ret.value.tag = "dict"
    /\ ret.key \in DOMAIN cache
    /\ cache[ret.key] = [data |-> ret.value, timestamp |-> now]
    /\ now > 0

(* C4: fetch_page never raises and sends at most one request per call: status
   200 yields the body text, any other status, a timeout and any other fault
   (a failure to obtain the client included) yield absent. *)
C4_FetchNeverRaises ==
    /\ ~ret.raised
    /\ ret.requests <= 1
    /\ ret.op = "fetch_page" =>
        IF ret.outcome.kind = "response" /\ ret.outcome.status = 200
        THEN ret.value = HtmlVal(ret.outcome.body)
        ELSE ret.value = NoneVal

\* fetch_page sent its request, met a fault that is no timeout, and returned absent
C4_Witness ==
    /\ ret.op = "fetch_page"
    /\ ret.outcome.kind = "error"
    /\ ret.requests = 1
    /\ ret.value = NoneVal

(* C5: when a get_player_stats or get_leaderboard call misses and its fetch
   fails (timeout, other status, fault), the call returns absent without
   raising after exactly one request and leaves the cache as it was: an expired
   entry of the key stays stored and expired. *)
C5_FailedFetchLeavesCache ==
    [][(Resumes /\ ret'.op \in CachedOps /\ FetchFailed(ret'.outcome))
        => /\ ret'.value = NoneVal
           /\ ~ret'.raised
           /\ ret'.requests = 1
           /\ cache' = cache]_vars

\* a call whose fetch timed out returned absent over an expired entry of its key
C5_Witness ==
    /\ ret.op = "get_player_stats"
    /\ ret.outcome.kind = "timeout"
    /\ ret.value = NoneVal
    /\ ret.key \in DOMAIN cache
    /\ now - cache[ret.key].timestamp >= 300

(* C6: under every interleaving, each cache entry is the whole (value,
   timestamp) pair one set_cache call was given, a read served from the cache
   returns the value of such a pair under the same key, and a write to one key
   changes the entry of no other key. *)
C6_EntriesWhole ==
    /\ [](/\ DOMAIN cache = DOMAIN written
          /\ \A k \in DOMAIN cache : cache[k] = written[k])
    /\ [][/\ (ret' # ret /\ ret'.hit)
               => (ret'.key \in DOMAIN written /\ ret'.value = written[ret'.key].data)
          /\ \A k \in DOMAIN cache' :
                (k \notin DOMAIN cache \/ cache'[k] # cache[k])
                    => \A j \in DOMAIN cache \ {k} : cache'[j] = cache[j]
         ]_vars

\* a coroutine overwrote an entry of a key while another coroutine working on
\* the same key was still suspended
C6_Witness ==
    /\ ret.requests = 1
    /\ ret.key \in DOMAIN cache
    /\ cache[ret.key].timestamp = now
    /\ now >= 300
    /\ \E c \in BagToSet(calls) : CallKey(c.op, c.arg) = ret.key
    /\ Cardinality(DOMAIN cache) = 2

OpenClients == {i \in 1..Len(clients) : clients[i] = "open"}

(* C7: fetch_page constructs a client only when there is none or the session is
   closed and otherwise reuses the open one; it never closes a client; at most
   one client is open at any time; only close_session closes one, and
   close_session with no open client changes nothing. *)
C7_OneClientReused ==
    /\ [](Cardinality(OpenClients) <= 1 /\ OpenClients \subseteq {session})
    /\ [][/\ Len(clients') > Len(clients)
               => /\ (IF session = 0 THEN TRUE ELSE clients[session] = "closed")
                  /\ Suspends
          /\ (Suspends /\ OpenClients # {})
               => (Suspending.client = session /\ UNCHANGED <<session, clients>>)
          /\ \A i \in OpenClients :
                clients'[i] = "closed"
                    => (ret'.op = "close_session" /\ i = session /\ calls' = calls)
          /\ (OpenClients = {} /\ ~Suspends) => UNCHANGED <<session, clients>>
         ]_vars

\* a second client is open after the first was closed with a request still in
\* flight on it
C7_Witness ==
    /\ Len(clients) = 2
    /\ clients[1] = "closed"
    /\ clients[2] = "open"
    /\ session = 2
    /\ \E c \in BagToSet(calls) : c.client = 1
    /\ \E c \in BagToSet(calls) : c.client = 2

\* the page of the profile example: the marker phrase and three rows, the first
\* under the given kill label
ExamplePage(killLabel) ==
    [text |-> <<"profil", " ", "igroka">>,
     tables |-> << << Row2(killLabel, <<"4", "2">>), Row2(<<"Podbit">>, <<"7">>),
                      Row2(<<"Premium">>, <<"Da">>) >> >>]

Parsed(html, nickname) == pout.done /\ pin.html = html /\ pin.nickname = nickname

LastRow == AllRows(pin.html)[Len(AllRows(pin.html))]
LastLabel == get_text(LastRow[1])
LastValue == get_text(LastRow[2])
DecimalString(s) == s # <<>> /\ \A i \in 1..Len(s) : s[i] \in DecimalDigits

\* the labels a reader of the claim takes for kill and death variants
KillVariant(label) ==
    \E i \in 1..Len(label) : label[i] \in {"Ubil", "Unichtozhil", "Ubijstv"}
DeathVariant(label) == \E i \in 1..Len(label) : label[i] \in {"Podbit", "Smertej"}
CodeKillVariant(label) ==
    \E i \in 1..Len(label) : label[i] \in {"Unichtozhil", "Ubijstv"}

(* C8 as stated: the example page with rows ("Ubil", "42"), ("Podbit", "7"),
   ("Premium", "Da") and nickname "Foo" gives kills=42, deaths=7, premium=true;
   a row whose label is a kill variant sets kills to its digit-string value. *)
C8_Original ==
    /\ Parsed(ExamplePage(<<"Ubil">>), Foo)
        => /\ pout.value.tag = "dict"
           /\ pout.value.val.kills = <<42>>
           /\ pout.value.val.deaths = <<7>>
           /\ pout.value.val.premium = <<TRUE>>
    /\ (pout.done /\ pout.value.tag = "dict" /\ AllRows(pin.html) # <<>>
            /\ Len(LastRow) >= 2 /\ KillVariant(LastLabel) /\ DecimalString(LastValue))
        => pout.value.val.kills = <<int(LastValue)>>

(* C8 as amended: the kill labels are "Unichtozhil" and "Ubijstv" only.  The
   example with "Unichtozhil" gives kills=42, deaths=7, premium=true; with "Ubil"
   it gives deaths=7, premium=true and no kills.  In a returned profile, a row
   of two or more columns sets kills when its label holds a kill label, deaths
   when it holds a death label and no kill label, each to the row's value when
   that is a string of decimal digits, and premium, when the label holds
   "Premium" and no label tested before it, to whether the value holds "Da". *)
C8_KillLabelsOfTheCode ==
    /\ Parsed(ExamplePage(<<"Unichtozhil">>), Foo)
        => /\ pout.value.tag = "dict"
           /\ pout.value.val.kills = <<42>>
           /\ pout.value.val.deaths = <<7>>
           /\ pout.value.val.premium = <<TRUE>>
    /\ Parsed(ExamplePage(<<"Ubil">>), Foo)
        => /\ pout.value.tag = "dict"
           /\ pout.value.val.kills = <<>>
           /\ pout.value.val.deaths = <<7>>
           /\ pout.value.val.premium = <<TRUE>>
    /\ (pout.done /\ pout.value.tag = "dict" /\ AllRows(pin.html) # <<>>
            /\ Len(LastRow) >= 2)
        => /\ (CodeKillVariant(LastLabel) /\ DecimalString(LastValue))
                => pout.value.val.kills = <<int(LastValue)>>
           /\ (DeathVariant(LastLabel) /\ ~CodeKillVariant(LastLabel)
                    /\ DecimalString(LastValue))
                => pout.value.val.deaths = <<int(LastValue)>>
           /\ (LastLabel = <<"Premium">>)
                => pout.value.val.premium = <<(\E i \in 1..Len(LastValue) :
                                                    LastValue[i] = "Da")>>

\* the example under the code's kill label was parsed to kills=42
C8_Witness ==
    /\ Parsed(ExamplePage(<<"Unichtozhil">>), Foo)
    /\ pout.value.tag = "dict"
    /\ pout.value.val.kills = <<42>>

\* the symbols of pat stand somewhere in s, letter case aside
Mentions(s, pat) ==
    \E i \in 0..(Len(s) - Len(pat)) :
        \A j \in 1..Len(pat) : LowerSymbol(s[i + j]) = LowerSymbol(pat[j])

(* C9: parse_player_profile returns absent, whatever the tables hold, when the
   markup has neither the marker phrase nor the nickname, letter case aside;
   when it has one of them and nothing raises, it returns a profile whose
   nickname is the requested one. *)
C9_ExistenceGate ==
    pout.done /\ pin.kind = "profile" =>
        IF Mentions(RawText(pin.html), Marker) \/ Mentions(RawText(pin.html), pin.nickname)
        THEN ProfileRaises(pin.html)
                \/ (pout.value.tag = "dict" /\ pout.value.val.nickname = pin.nickname)
        ELSE pout.value = NoneVal

\* a page naming the nickname in capitals only, with no marker, gave a profile
C9_Witness ==
    /\ pout.done
    /\ pin.kind = "profile"
    /\ pin.html.text = <<"FOO">>
    /\ pin.nickname = Foo
    /\ pin.html.tables # <<<<>>>>
    /\ pout.value.tag = "dict"
    /\ pout.value.val.nickname = Foo

\* the rows the claim counts as accepted: three columns, a rank of decimal
\* digits, a name and a value text
ClaimAccepted(row) ==
    /\ Len(row) >= 3
    /\ DecimalString(get_text(row[1]))
    /\ PlayerName(row[2]) # <<>>
    /\ get_text(row[3]) # <<>>

(* C10: for every page the list parse_leaderboard returns has at most 10
   entries, is sorted ascending by rank, and holds the accepted rows of smallest
   rank over all tables, rows of equal rank in document order. *)
C10_TopTenByRank ==
    pout.done /\ pin.kind = "leaderboard" =>
        LET r == pout.value.val
            acc == SelectSeq(AllRows(pin.html), ClaimAccepted)
            n == Len(acc)
            rank(j) == int(get_text(acc[j][1]))
            pos(j) == 1 + Cardinality({k \in 1..n :
                            rank(k) < rank(j) \/ (rank(k) = rank(j) /\ k < j)})
        IN  /\ pout.value.tag = "list"
            /\ Len(r) <= 10
            /\ Len(r) = (IF n < 10 THEN n ELSE 10)
            /\ \A i \in 1..(Len(r) - 1) : r[i].rank <= r[i + 1].rank
            /\ \A j \in 1..n : pos(j) <= 10 => r[pos(j)] = LeaderboardEntry(acc[j])

(* C11: in every list parse_leaderboard returns, each entry's rank is an integer
   of at least 1 and no two entries have the same rank. *)
C11_RanksPositiveUnique ==
    pout.done /\ pin.kind = "leaderboard" =>
        LET r == pout.value.val
        IN  /\ \A i \in 1..Len(r) : r[i].rank \in Nat /\ r[i].rank >= 1
            /\ \A i, j \in 1..Len(r) : r[i].rank = r[j].rank => i = j

\* the value the claim reads from a value text: its decimal digits, 0 when none
DigitsOf(text) == SelectSeq(text, LAMBDA ch : ch \in DecimalDigits)
ClaimValue(text) == IF DigitsOf(text) = <<>> THEN 0 ELSE int(DigitsOf(text))

(* C12: for every accepted row the entry's value is the number read from the
   digits of the value text, every other character deleted, or 0 when no digit
   remains ("1 000" gives 1000); formatted_value is the value text unchanged; a
   value that does not parse removes no row from the result. *)
C12_ValueFromDigits ==
    (pout.done /\ pin.kind = "leaderboard" /\ ~LeaderboardRaises(pin.html)) =>
        LET r == pout.value.val
            acc == SelectSeq(AllRows(pin.html), ClaimAccepted)
        IN  /\ Len(r) = (IF Len(acc) < 10 THEN Len(acc) ELSE 10)
            /\ \A i \in 1..Len(r) :
                    /\ r[i].value \in Nat
                    /\ r[i].value = ClaimValue(r[i].formatted_value)
                    /\ \E j \in 1..Len(acc) :
                            /\ r[i].formatted_value = get_text(acc[j][3])
                            /\ r[i].name = PlayerName(acc[j][2])
                            /\ r[i].rank = int(get_text(acc[j][1]))

\* what identifies the entry a row contributes: its rank, resolved name and value text
EntryOfRow(row) == <<int(get_text(row[1])), PlayerName(row[2]), get_text(row[3])>>
EntryKey(e) == <<e.rank, e.name, e.formatted_value>>

(* C13: a table row contributes an entry if and only if it has at least 3
   columns, a column-0 text of digits only, a non-empty resolved name and a
   non-empty value text; a row whose rank is not a number is left out and does
   not change the entries of the other rows.  Up to 10 contributing rows, the
   entries returned are those of the contributing rows, one each; beyond 10,
   every entry returned is the entry of a contributing row. *)
C13_RowAcceptance ==
    pout.done /\ pin.kind = "leaderboard" =>
        LET r == pout.value.val
            acc == SelectSeq(AllRows(pin.html), ClaimAccepted)
            inResult(k) == Cardinality({i \in 1..Len(r) : EntryKey(r[i]) = k})
            inRows(k) == Cardinality({j \in 1..Len(acc) : EntryOfRow(acc[j]) = k})
        IN  IF Len(acc) <= 10
            THEN /\ Len(r) = Len(acc)
                 /\ \A j \in 1..Len(acc) :
                        inResult(EntryOfRow(acc[j])) = inRows(EntryOfRow(acc[j]))
            ELSE /\ Len(r) = 10
                 /\ \A i \in 1..Len(r) : inRows(EntryKey(r[i])) >= inResult(EntryKey(r[i]))

\* the rows of two or more columns whose label is mapped to the field, in
\* document order; with digitsOnly, only those whose value is a decimal string
RowsOfField(html, field, digitsOnly) ==
    SelectSeq(AllRows(html),
              LAMBDA row : /\ Len(row) >= 2
                           /\ StatField(get_text(row[1])) = field
                           /\ (digitsOnly => DecimalString(get_text(row[2]))))

\* the value of the last of these rows, absent when there is none
LastValueOf(rows) == IF rows = <<>> THEN <<>> ELSE <<get_text(rows[Len(rows)][2])>>
LastIntOf(rows) == IF rows = <<>> THEN <<>> ELSE <<int(get_text(rows[Len(rows)][2]))>>

(* C14: the tabular fields follow last-write-wins over all rows of all tables
   in document order: kills, deaths and gold_boxes each equal the integer of
   the last row mapped to the field whose value is a digit string, a later
   mapped row with another value changing nothing; premium and group equal the
   result of the last row mapped to them; a field with no such row is absent. *)
C14_LastWriteWins ==
    (/\ pout.done
     /\ pin.kind = "profile"
     /\ Mentions(RawText(pin.html), Marker) \/ Mentions(RawText(pin.html), pin.nickname))
        => /\ pout.value.tag = "dict"
           /\ pout.value.val.kills = LastIntOf(RowsOfField(pin.html, "kills", TRUE))
           /\ pout.value.val.deaths = LastIntOf(RowsOfField(pin.html, "deaths", TRUE))
           /\ pout.value.val.gold_boxes
                = LastIntOf(RowsOfField(pin.html, "gold_boxes", TRUE))
           /\ pout.value.val.group = LastValueOf(RowsOfField(pin.html, "group", FALSE))
           /\ pout.value.val.premium
                = (IF RowsOfField(pin.html, "premium", FALSE) = <<>> THEN <<>>
                   ELSE <<(\E i \in 1..Len(LastValueOf(RowsOfField(pin.html, "premium", FALSE))[1]) :
                            LastValueOf(RowsOfField(pin.html, "premium", FALSE))[1][i] = "Da")>>)

\* the numerator the claim reads from a node: the digits of the run of digits
\* and whitespace that ends at the "/" of the node's first fraction
ClaimNumerator(node) ==
    LET i == SetMin({j \in 1..Len(node) : FractionAt(node, j)})
        a == SetMin({j \in 1..i :
                \A k \in j..(i - 1) : node[k] \in DecimalDigits \cup Whitespace})
    IN  DigitsOf(SubSeq(node, a, i - 1))

\* the experience of the claim: from the first text node that holds a fraction
ClaimExperience(html) ==
    LET matching == SelectSeq(TextNodes(html), FractionMatches)
    IN  IF matching = <<>> THEN <<>> ELSE <<int(ClaimNumerator(matching[1]))>>

(* C15: experience is the numerator of the first text node, in document order,
   that holds a fraction (digits, optional whitespace, "/", optional whitespace,
   digits), whitespace removed and read as an integer, also when other text
   precedes the fraction in the node; later nodes never change it; it is absent
   only when no text node holds a fraction. *)
C15_ExperienceFirstFraction ==
    (pout.done /\ pin.kind = "profile" /\ pout.value.tag = "dict")
        => pout.value.val.experience = ClaimExperience(pin.html)

\* the entry point and argument a cache key belongs to
OpOfKey(k) == IF k[1] = "player_" THEN "get_player_stats" ELSE "get_leaderboard"

(* C16: in every reachable state every cache entry holds a non-empty value, a
   profile under a player key and a non-empty list under a leaderboard key, so
   the truthiness test on a cache read never discards an unexpired entry; an
   entry appears or changes only in the step in which the entry point of
   exactly that key resumes from a fetch whose markup the extractor turned into
   that value; player keys and leaderboard keys never coincide. *)
C16_OnlyNonEmptyStored ==
    /\ [](/\ \A k \in DOMAIN cache :
                /\ k \in Keys
                /\ Truthy(cache[k].data)
                /\ cache[k].data.tag = (IF OpOfKey(k) = "get_player_stats" THEN "dict"
                                        ELSE "list")
                /\ Young(cache, k, now) => get_from_cache(cache, k, now) = cache[k].data
                /\ Young(cache, k, now) => CacheServes(OpOfKey(k), k[2])
           /\ \A n \in Nicknames, c \in Categories : PlayerKey(n) # LeaderboardKey(c))
    /\ [][\A k \in DOMAIN cache' :
            (k \notin DOMAIN cache \/ cache'[k] # cache[k])
                => /\ Resumes
                   /\ ret'.key = k
                   /\ ret'.op = OpOfKey(k)
                   /\ k = CallKey(ret'.op, ret'.arg)
                   /\ ret'.outcome.kind = "response"
                   /\ ret'.outcome.status = OkStatus
                   /\ cache'[k].data = Extract(ret'.op, ret'.arg, ret'.outcome.body)
                   /\ Truthy(cache'[k].data)
                   /\ ret'.value = cache'[k].data
         ]_vars

\* get_leaderboard was given a page without ranking rows: it returned the empty
\* list and stored nothing, while the player key holds a profile
C16_Witness ==
    /\ ret.op = "get_leaderboard"
    /\ ret.requests = 1
    /\ ret.outcome.kind = "response"
    /\ ret.outcome.status = OkStatus
    /\ ret.outcome.body = ProfilePage
    /\ ret.value = ListVal(<<>>)
    /\ ret.key \notin DOMAIN cache
    /\ PlayerKey(Foo) \in DOMAIN cache
    /\ cache[PlayerKey(Foo)].data.tag = "dict"

====
